---- MODULE Spec2Model ----
(***************************************************************************)
(* Model of the SecureBucket CDK construct (lib/secure-bucket.ts) and of   *)
(* the SecureBucketStack wrapper (lib/secure-bucket-stack.ts).             *)
(*                                                                         *)
(* One construction pass is a straight-line program; pc is the position in *)
(* the constructor.  Strings are sequences of one-character strings, so    *)
(* that template literals are concatenations and IAM StringLike patterns   *)
(* are matched character by character.                                     *)
(***************************************************************************)
EXTENDS Integers, Sequences, FiniteSets, TLC

(* ---------------------------------------------------------------------- *)
(* Bounds                                                                  *)
(* ---------------------------------------------------------------------- *)
MaxAdditional == 2

(* ---------------------------------------------------------------------- *)
(* String literals of the source                                           *)
(* ---------------------------------------------------------------------- *)
DEV == <<"d", "e", "v">>
PROD == <<"p", "r", "o", "d">>
ACME == <<"a", "c", "m", "e">>
SecureBucketInfix == <<"-", "s", "e", "c", "u", "r", "e", "-", "b", "u", "c", "k", "e", "t", "-">>
AliasPrefix == <<"a", "l", "i", "a", "s", "/">>
BucketKeyInfix == <<"-", "b", "u", "c", "k", "e", "t", "-", "k", "e", "y", "-">>
OidcRoleInfix == <<"-", "g", "i", "t", "h", "u", "b", "-", "o", "i", "d", "c", "-", "r", "o", "l", "e", "-">>
BucketNameInfix == <<"-", "b", "u", "c", "k", "e", "t", "-", "n", "a", "m", "e", "-">>
OidcRoleArnInfix == <<"-", "o", "i", "d", "c", "-", "r", "o", "l", "e", "-", "a", "r", "n", "-">>
KmsKeyArnInfix == <<"-", "k", "m", "s", "-", "k", "e", "y", "-", "a", "r", "n", "-">>
StsAudience == <<"s", "t", "s", ".", "a", "m", "a", "z", "o", "n", "a", "w", "s", ".", "c", "o", "m">>
RepoPrefix == <<"r", "e", "p", "o", ":">>
PatternSuffix == <<":", "*">>
GitHubIssuer == "token.actions.githubusercontent.com"
MaxSessionHours == 1

(* ---------------------------------------------------------------------- *)
(* Optional properties (a `?:` field of a TypeScript interface)            *)
(* ---------------------------------------------------------------------- *)
UndefStr == [set |-> FALSE, val |-> <<>>]
UndefBool == [set |-> FALSE, val |-> FALSE]
UndefList == [set |-> FALSE, val |-> <<>>]
Some(v) == [set |-> TRUE, val |-> v]

\* `s || d` on an optional string: undefined and '' are both falsy
OrStr(o, d) == IF o.set /\ o.val # <<>> THEN o.val ELSE d
\* truthiness of an optional string
TruthyStr(o) == o.set /\ o.val # <<>>
\* truthiness of an optional boolean
TruthyBool(o) == o.set /\ o.val
\* `b ?? d` on an optional boolean: only undefined takes the default
Nullish(o, d) == IF o.set THEN o.val ELSE d
\* `l || []` on an optional array: every array, also the empty one, is truthy
OrList(o) == IF o.set THEN o.val ELSE <<>>

(* ---------------------------------------------------------------------- *)
(* Input domains                                                           *)
(* ---------------------------------------------------------------------- *)
RepoA == <<"o", "/", "a">>
RepoB == <<"o", "/", "b">>
RepoAB == <<"o", "/", "a", "b">>
RepoOther == <<"p", "/", "a">>
RepoWild == <<"o", "/", "*">>

ProjectIds == {ACME, <<"x">>}
Environments == {UndefStr, Some(<<>>), Some(DEV), Some(PROD)}
OptBools == {UndefBool, Some(TRUE), Some(FALSE)}
GithubRepos == {UndefStr, Some(<<>>), Some(RepoA), Some(RepoWild)}
AdditionalNames == {RepoA, RepoB}
\* lists of empty strings, which the type string[] admits
EmptyRepoLists == {[i \in 1..n |-> <<>>] : n \in 1..MaxAdditional}
RepoLists ==
    (UNION {[1..n -> AdditionalNames] : n \in 0..MaxAdditional})
      \cup EmptyRepoLists
AdditionalRepos == {UndefList} \cup {Some(l) : l \in RepoLists}

\* SecureBucketProps
SecureBucketProps ==
    [projectId : ProjectIds, enableVersioning : OptBools,
     enableEncryption : OptBools, githubRepo : GithubRepos,
     additionalGithubRepos : AdditionalRepos, environment : Environments]

\* SecureBucketStackProps: environment is required, there is no
\* additionalGithubRepos field
SecureBucketStackProps ==
    {p \in SecureBucketProps :
        p.environment.set /\ p.additionalGithubRepos = UndefList}

Entries == {"SecureBucket", "SecureBucketStack"}

(* ---------------------------------------------------------------------- *)
(* State                                                                   *)
(* ---------------------------------------------------------------------- *)
VARIABLES
    entry,        \* the public entry point the caller used
    raw,          \* the properties the caller passed to the entry point
    props,        \* the properties the SecureBucket constructor receives
    pc,           \* position in the construction pass
    environment,  \* const environment (line 56)
    bucketName,   \* const bucketName (line 57)
    kmsKey,       \* this.kmsKey
    bucket,       \* this.bucket
    role,         \* const role of createGitHubOIDCRole
    oidcRole,     \* this.oidcRole
    outputs,      \* the CfnOutputs registered on the construct, in order
    prev          \* what the previous construction pass produced, if any

vars == <<entry, raw, props, pc, environment, bucketName, kmsKey, bucket,
          role, oidcRole, outputs, prev>>

NoKey == [exists |-> FALSE]
NoBucket == [exists |-> FALSE]
NoRole == [exists |-> FALSE]
NoPrev == [exists |-> FALSE]

Fresh(e, p) ==
    /\ entry = e
    /\ raw = p
    /\ props = p
    /\ pc = IF e = "SecureBucketStack" THEN "stack" ELSE "begin"
    /\ environment = <<>>
    /\ bucketName = <<>>
    /\ kmsKey = NoKey
    /\ bucket = NoBucket
    /\ role = NoRole
    /\ oidcRole = NoRole
    /\ outputs = <<>>

Init ==
    /\ \E e \in Entries :
         \E p \in (IF e = "SecureBucketStack" THEN SecureBucketStackProps
                                              ELSE SecureBucketProps) :
            Fresh(e, p)
    /\ prev = NoPrev

(* ---------------------------------------------------------------------- *)
(* SecureBucketStack constructor                                           *)
(* ---------------------------------------------------------------------- *)
\* a wrapper that hands the optional booleans on as they came
StackProps_PassThrough(p) ==
    [projectId |-> p.projectId,
     environment |-> p.environment,
     githubRepo |-> p.githubRepo,
     enableVersioning |-> p.enableVersioning,
     enableEncryption |-> p.enableEncryption,
     additionalGithubRepos |-> UndefList]

StackProps(p) ==
    [projectId |-> p.projectId,
     environment |-> p.environment,
     githubRepo |-> p.githubRepo,
     enableVersioning |-> Some(Nullish(p.enableVersioning, TRUE)),
     enableEncryption |-> Some(Nullish(p.enableEncryption, TRUE)),
     additionalGithubRepos |-> UndefList]

StackConstructor ==
    /\ pc = "stack"
    /\ props' = StackProps(raw)
    /\ pc' = "begin"
    /\ UNCHANGED <<entry, raw, environment, bucketName, kmsKey, bucket, role,
                   oidcRole, outputs, prev>>

(* ---------------------------------------------------------------------- *)
(* SecureBucket constructor                                                *)
(* ---------------------------------------------------------------------- *)
\* `??` in place of `||`: only undefined takes the default
ResolveEnvironment_Nullish(p) == Nullish(p.environment, DEV)

ResolveEnvironment(p) == OrStr(p.environment, DEV)

\* a bucket name that also depends on whether a repository was given
BucketNameOf_WithRepo(p, env) ==
    p.projectId \o SecureBucketInfix \o env
      \o (IF TruthyStr(p.githubRepo) THEN <<"-", "c", "i">> ELSE <<>>)

BucketNameOf(p, env) == p.projectId \o SecureBucketInfix \o env

Begin ==
    /\ pc = "begin"
    /\ environment' = ResolveEnvironment(props)
    /\ bucketName' = BucketNameOf(props, ResolveEnvironment(props))
    /\ pc' = "key"
    /\ UNCHANGED <<entry, raw, props, kmsKey, bucket, role, oidcRole,
                   outputs, prev>>

\* an alias without the alias/ prefix
KeyAliasOf_NoPrefix(p, env) == p.projectId \o BucketKeyInfix \o env

KeyAliasOf(p, env) == AliasPrefix \o p.projectId \o BucketKeyInfix \o env

NewKey(p, env, bn) ==
    [exists |-> TRUE,
     id |-> "BucketEncryptionKey",
     descriptionOf |-> bn,
     enableKeyRotation |-> TRUE,
     removalPolicy |-> "DESTROY",
     aliases |-> <<KeyAliasOf(p, env)>>]

CreateKey ==
    /\ pc = "key"
    /\ kmsKey' = IF TruthyBool(props.enableEncryption)
                 THEN NewKey(props, environment, bucketName)
                 ELSE kmsKey
    /\ pc' = "bucket"
    /\ UNCHANGED <<entry, raw, props, environment, bucketName, bucket, role,
                   oidcRole, outputs, prev>>

\* a key reference written down whether or not the key was built
KeyRef_Dangling(k) == "BucketEncryptionKey"

KeyRef(k) == IF k.exists THEN k.id ELSE "undefined"

\* a bucket whose transport enforcement follows the encryption flag
NewBucket_ConfigurableSSL(p, bn, k) ==
    [exists |-> TRUE,
     id |-> "SecureBucket",
     bucketName |-> bn,
     versioned |-> (TruthyBool(p.enableVersioning) \/ FALSE),
     encryption |-> IF TruthyBool(p.enableEncryption) THEN "KMS"
                                                      ELSE "S3_MANAGED",
     encryptionKey |-> KeyRef(k),
     blockPublicAccess |-> "BLOCK_ALL",
     enforceSSL |-> TruthyBool(p.enableEncryption),
     removalPolicy |-> "DESTROY",
     autoDeleteObjects |-> TRUE]

\* a bucket that is not handed the key
NewBucket_KeyNotPassed(p, bn, k) ==
    [exists |-> TRUE,
     id |-> "SecureBucket",
     bucketName |-> bn,
     versioned |-> (TruthyBool(p.enableVersioning) \/ FALSE),
     encryption |-> IF TruthyBool(p.enableEncryption) THEN "KMS"
                                                      ELSE "S3_MANAGED",
     encryptionKey |-> "undefined",
     blockPublicAccess |-> "BLOCK_ALL",
     enforceSSL |-> TRUE,
     removalPolicy |-> "DESTROY",
     autoDeleteObjects |-> TRUE]

NewBucket(p, bn, k) ==
    [exists |-> TRUE,
     id |-> "SecureBucket",
     bucketName |-> bn,
     versioned |-> (TruthyBool(p.enableVersioning) \/ FALSE),
     encryption |-> IF TruthyBool(p.enableEncryption) THEN "KMS"
                                                      ELSE "S3_MANAGED",
     encryptionKey |-> KeyRef(k),
     blockPublicAccess |-> "BLOCK_ALL",
     enforceSSL |-> TRUE,
     removalPolicy |-> "DESTROY",
     autoDeleteObjects |-> TRUE]

CreateBucket ==
    /\ pc = "bucket"
    /\ bucket' = NewBucket(props, bucketName, kmsKey)
    /\ pc' = "role"
    /\ UNCHANGED <<entry, raw, props, environment, bucketName, kmsKey, role,
                   oidcRole, outputs, prev>>

(* ---------------------------------------------------------------------- *)
(* createGitHubOIDCRole                                                    *)
(* ---------------------------------------------------------------------- *)
\* [props.githubRepo!, ...(props.additionalGithubRepos || [])]
\* the additional repositories put first
GithubReposOf_AdditionalFirst(p) ==
    OrList(p.additionalGithubRepos) \o <<p.githubRepo.val>>

GithubReposOf(p) == <<p.githubRepo.val>> \o OrList(p.additionalGithubRepos)

\* (repo) => `repo:${repo}:*`
\* a pattern without the colon that closes the repository name
SubPattern_NoColon(repo) == RepoPrefix \o repo \o <<"*">>

SubPattern(repo) == RepoPrefix \o repo \o PatternSuffix

\* githubRepos.map(...)
MapSubPattern(repos) == [i \in 1..Len(repos) |-> SubPattern(repos[i])]

\* a role name that resolves the default with `??`
RoleNameOf_Nullish(p) ==
    p.projectId \o OidcRoleInfix \o Nullish(p.environment, DEV)

RoleNameOf(p) == p.projectId \o OidcRoleInfix \o OrStr(p.environment, DEV)

ProviderArn == "oidc-provider/token.actions.githubusercontent.com"

NewRole(p) ==
    [exists |-> TRUE,
     id |-> "GitHubOIDCRole",
     roleName |-> RoleNameOf(p),
     assumedBy |-> [federated |-> ProviderArn,
                    StringEquals |-> StsAudience,
                    StringLike |-> MapSubPattern(GithubReposOf(p))],
     descriptionOf |-> p.projectId,
     maxSessionDuration |-> MaxSessionHours,
     grants |-> <<>>]

SkipRole ==
    /\ pc = "role"
    /\ ~TruthyStr(props.githubRepo)
    /\ pc' = "out_bucket"
    /\ UNCHANGED <<entry, raw, props, environment, bucketName, kmsKey, bucket,
                   role, oidcRole, outputs, prev>>

CreateRole ==
    /\ pc = "role"
    /\ TruthyStr(props.githubRepo)
    /\ role' = NewRole(props)
    /\ pc' = "grant_rw"
    /\ UNCHANGED <<entry, raw, props, environment, bucketName, kmsKey, bucket,
                   oidcRole, outputs, prev>>

\* resource scopes of a grant
BucketArn(b) == b.id
BucketObjects(b) == b.id \o "/*"
KeyArnScope(k) == k.id
Wildcard == "*"

ReadWriteGrant(b) ==
    [kind |-> "grantReadWrite",
     actions |-> {"s3:read", "s3:write"},
     resources |-> {BucketArn(b), BucketObjects(b)}]

EncryptDecryptGrant(k) ==
    [kind |-> "grantEncryptDecrypt",
     actions |-> {"kms:encrypt", "kms:decrypt"},
     resources |-> {KeyArnScope(k)}]

ManagedPolicyGrant ==
    [kind |-> "managedPolicy",
     actions |-> {"AWSCloudFormationFullAccess"},
     resources |-> {Wildcard}]

CdkActions ==
    {"iam:CreateRole", "iam:DeleteRole", "iam:AttachRolePolicy",
     "iam:DetachRolePolicy", "iam:PutRolePolicy", "iam:DeleteRolePolicy",
     "iam:GetRole", "iam:GetRolePolicy", "iam:PassRole", "iam:TagRole",
     "iam:UntagRole", "sts:GetCallerIdentity", "s3:*", "kms:*"}

InlineGrant ==
    [kind |-> "policyStatement",
     actions |-> CdkActions,
     resources |-> {Wildcard}]

AddGrant(r, g) == [r EXCEPT !.grants = Append(@, g)]

GrantReadWrite ==
    /\ pc = "grant_rw"
    /\ role' = AddGrant(role, ReadWriteGrant(bucket))
    /\ pc' = "grant_kms"
    /\ UNCHANGED <<entry, raw, props, environment, bucketName, kmsKey, bucket,
                   oidcRole, outputs, prev>>

\* the key grant left out
GrantKms_Never(r, k) == r

GrantKms(r, k) == IF k.exists THEN AddGrant(r, EncryptDecryptGrant(k)) ELSE r

GrantEncryptDecrypt ==
    /\ pc = "grant_kms"
    /\ role' = GrantKms(role, kmsKey)
    /\ pc' = "managed_policy"
    /\ UNCHANGED <<entry, raw, props, environment, bucketName, kmsKey, bucket,
                   oidcRole, outputs, prev>>

AddManagedPolicy ==
    /\ pc = "managed_policy"
    /\ role' = AddGrant(role, ManagedPolicyGrant)
    /\ pc' = "add_to_policy"
    /\ UNCHANGED <<entry, raw, props, environment, bucketName, kmsKey, bucket,
                   oidcRole, outputs, prev>>

AddToPolicy ==
    /\ pc = "add_to_policy"
    /\ role' = AddGrant(role, InlineGrant)
    /\ pc' = "return_role"
    /\ UNCHANGED <<entry, raw, props, environment, bucketName, kmsKey, bucket,
                   oidcRole, outputs, prev>>

ReturnRole ==
    /\ pc = "return_role"
    /\ oidcRole' = role
    /\ pc' = "out_bucket"
    /\ UNCHANGED <<entry, raw, props, environment, bucketName, kmsKey, bucket,
                   role, outputs, prev>>

(* ---------------------------------------------------------------------- *)
(* CfnOutputs                                                              *)
(* ---------------------------------------------------------------------- *)
BucketExportName(p, env) == p.projectId \o BucketNameInfix \o env
RoleExportName(p, env) == p.projectId \o OidcRoleArnInfix \o env
KeyExportName(p, env) == p.projectId \o KmsKeyArnInfix \o env

\* resolved values of the attribute tokens
RoleArn(r) == <<"arn:aws:iam::", "account", ":role/">> \o r.roleName
KeyArn(k) == <<"arn:aws:kms:", "region", ":", "account", ":key/", k.id>>

CfnOutput(id, value, exportName) ==
    [id |-> id, value |-> value, exportName |-> exportName]

OutputBucketName ==
    /\ pc = "out_bucket"
    /\ outputs' = Append(outputs,
            CfnOutput("BucketName", bucket.bucketName,
                      BucketExportName(props, environment)))
    /\ pc' = "out_role"
    /\ UNCHANGED <<entry, raw, props, environment, bucketName, kmsKey, bucket,
                   role, oidcRole, prev>>

\* the role output left out
RoleOutputs_Forgotten(outs, r, p, env) == outs

RoleOutputs(outs, r, p, env) ==
    IF r.exists
    THEN Append(outs, CfnOutput("OIDCRoleArn", RoleArn(r),
                                RoleExportName(p, env)))
    ELSE outs

OutputOIDCRoleArn ==
    /\ pc = "out_role"
    /\ outputs' = RoleOutputs(outputs, oidcRole, props, environment)
    /\ pc' = "out_key"
    /\ UNCHANGED <<entry, raw, props, environment, bucketName, kmsKey, bucket,
                   role, oidcRole, prev>>

\* the key output left out
KeyOutputs_Forgotten(outs, k, p, env) == outs

KeyOutputs(outs, k, p, env) ==
    IF k.exists
    THEN Append(outs, CfnOutput("KMSKeyArn", KeyArn(k),
                                KeyExportName(p, env)))
    ELSE outs

OutputKMSKeyArn ==
    /\ pc = "out_key"
    /\ outputs' = KeyOutputs(outputs, kmsKey, props, environment)
    /\ pc' = "done"
    /\ UNCHANGED <<entry, raw, props, environment, bucketName, kmsKey, bucket,
                   role, oidcRole, prev>>

(* ---------------------------------------------------------------------- *)
(* A further, independent invocation (re-provisioning)                     *)
(* ---------------------------------------------------------------------- *)
\* the identifiers a finished pass derived
ExportNames(outs) == [i \in 1..Len(outs) |-> outs[i].exportName]

Identifiers ==
    [store |-> bucket.bucketName,
     keyAlias |-> IF kmsKey.exists THEN kmsKey.aliases ELSE <<>>,
     roleName |-> IF oidcRole.exists THEN oidcRole.roleName ELSE <<>>,
     exports |-> ExportNames(outputs)]

\* The caller builds again in a fresh app, with a configuration that agrees
\* with the last one on projectId and environment; prev keeps what the last
\* pass derived and whether the whole configuration was repeated.
Rerun ==
    /\ pc = "done"
    /\ \E e \in Entries :
         \E p \in (IF e = "SecureBucketStack" THEN SecureBucketStackProps
                                              ELSE SecureBucketProps) :
            /\ p.projectId = raw.projectId
            /\ p.environment = raw.environment
            /\ prev' = [exists |-> TRUE,
                        same |-> (e = entry /\ p = raw),
                        ids |-> Identifiers]
            /\ entry' = e
            /\ raw' = p
            /\ props' = p
            /\ pc' = IF e = "SecureBucketStack" THEN "stack" ELSE "begin"
    /\ environment' = <<>>
    /\ bucketName' = <<>>
    /\ kmsKey' = NoKey
    /\ bucket' = NoBucket
    /\ role' = NoRole
    /\ oidcRole' = NoRole
    /\ outputs' = <<>>

(* ---------------------------------------------------------------------- *)
(* A throwing library call.  The constructors hold no try/catch: the       *)
(* exception leaves them at the call, and what was assigned or registered  *)
(* before stays as it is.                                                  *)
(* ---------------------------------------------------------------------- *)
\* an exception swallowed: the pass is reported as complete
FailedAt_Swallowed(step) == "done"

\* where the pass stopped
FailedAt(step) == "failed:" \o step

\* the positions at which a construct is created or a policy is changed
Throws ==
    \/ pc = "key" /\ TruthyBool(props.enableEncryption)
    \/ pc = "bucket"
    \/ pc = "role" /\ TruthyStr(props.githubRepo)
    \/ pc \in {"grant_rw", "managed_policy", "add_to_policy", "out_bucket"}
    \/ pc = "grant_kms" /\ kmsKey.exists
    \/ pc = "out_role" /\ oidcRole.exists
    \/ pc = "out_key" /\ kmsKey.exists

Fail ==
    /\ Throws
    /\ pc' = FailedAt(pc)
    /\ UNCHANGED <<entry, raw, props, environment, bucketName, kmsKey, bucket,
                   role, oidcRole, outputs, prev>>

\* new kms.Key succeeded and was assigned, addAlias throws
FailAddAlias ==
    /\ pc = "key"
    /\ TruthyBool(props.enableEncryption)
    /\ kmsKey' = [NewKey(props, environment, bucketName) EXCEPT !.aliases = <<>>]
    /\ pc' = FailedAt("addAlias")
    /\ UNCHANGED <<entry, raw, props, environment, bucketName, bucket, role,
                   oidcRole, outputs, prev>>

Next ==
    \/ StackConstructor
    \/ Begin
    \/ CreateKey
    \/ CreateBucket
    \/ SkipRole
    \/ CreateRole
    \/ GrantReadWrite
    \/ GrantEncryptDecrypt
    \/ AddManagedPolicy
    \/ AddToPolicy
    \/ ReturnRole
    \/ OutputBucketName
    \/ OutputOIDCRoleArn
    \/ OutputKMSKeyArn
    \/ Rerun
    \/ Fail
    \/ FailAddAlias

Spec == Init /\ [][Next]_vars

(* ---------------------------------------------------------------------- *)
(* Evaluation of the role's trust policy (OpenIdConnectPrincipal with      *)
(* StringEquals on aud and StringLike on sub)                              *)
(* ---------------------------------------------------------------------- *)
\* IAM StringLike: * matches any run of characters, ? any one character
RECURSIVE Like(_, _)
Like(pat, s) ==
    IF pat = <<>> THEN s = <<>>
    ELSE IF Head(pat) = "*"
         THEN Like(Tail(pat), s) \/ (s # <<>> /\ Like(pat, Tail(s)))
         ELSE /\ s # <<>>
              /\ (Head(pat) = "?" \/ Head(pat) = Head(s))
              /\ Like(Tail(pat), Tail(s))

\* tokens presented to sts:AssumeRoleWithWebIdentity; GitHub issues
\* sub = repo:<owner>/<repo>:<context>
OtherAudience == <<"a", "p", "i">>
RefMain == <<"r", "e", "f", ":", "r", "e", "f", "s", "/", "h", "e", "a", "d", "s", "/", "m", "a", "i", "n">>
PullRequest == <<"p", "u", "l", "l", "_", "r", "e", "q", "u", "e", "s", "t">>
TokenRepos == {RepoA, RepoB, RepoAB, RepoOther}
TokenRefs == {RefMain, PullRequest}
Tokens ==
    [provider : {ProviderArn, "oidc-provider/other"},
     aud : {StsAudience, OtherAudience},
     repo : TokenRepos,
     ref : TokenRefs]

SubClaim(tok) == RepoPrefix \o tok.repo \o <<":">> \o tok.ref

MatchesSome(pats, s) == \E i \in 1..Len(pats) : Like(pats[i], s)

\* all condition operators must hold; the values of one key are alternatives
Assumable(r, tok) ==
    /\ r.exists
    /\ tok.provider = r.assumedBy.federated
    /\ tok.aud = r.assumedBy.StringEquals
    /\ MatchesSome(r.assumedBy.StringLike, SubClaim(tok))

(* ---------------------------------------------------------------------- *)
(* Properties                                                              *)
(* ---------------------------------------------------------------------- *)
Finished == pc = "done"

\* the environment every identifier is expected to carry
NormalizedEnvironment ==
    IF props.environment.set /\ Len(props.environment.val) > 0
    THEN props.environment.val
    ELSE <<"d", "e", "v">>

OutputIds == {outputs[i].id : i \in 1..Len(outputs)}
OutputNames == {outputs[i].exportName : i \in 1..Len(outputs)}
\* the Named Outputs as a relation from export name to value
NamedOutputs == {<<outputs[i].exportName, outputs[i].value>> : i \in 1..Len(outputs)}

\* C1: whatever the configuration, a finished pass has built the bucket, and
\* the bucket, from the moment it exists, blocks all public access and
\* enforces SSL.
C1_StoreAlwaysLockedDown ==
    /\ Finished => bucket.exists
    /\ bucket.exists =>
          /\ bucket.blockPublicAccess = "BLOCK_ALL"
          /\ bucket.enforceSSL = TRUE

\* C1 witness: a finished pass of a configuration with versioning and
\* encryption off and no repository, whose bucket is built all the same.
C1_Witness ==
    /\ Finished
    /\ bucket.exists
    /\ ~bucket.versioned
    /\ bucket.encryption = "S3_MANAGED"
    /\ ~oidcRole.exists

\* C2: after a pass, encryption off means no key, S3_MANAGED and no key
\* reference; encryption on means a rotating key, KMS and a reference to that
\* key.  So KMS mode, having a key reference and the key existing coincide.
C2_EncryptionWiring ==
    Finished =>
      /\ ~TruthyBool(props.enableEncryption) =>
            /\ ~kmsKey.exists
            /\ bucket.encryption = "S3_MANAGED"
            /\ bucket.encryptionKey = "undefined"
      /\ TruthyBool(props.enableEncryption) =>
            /\ kmsKey.exists
            /\ kmsKey.enableKeyRotation = TRUE
            /\ bucket.encryption = "KMS"
            /\ bucket.encryptionKey = kmsKey.id
      /\ (bucket.encryption = "KMS") <=> (bucket.encryptionKey # "undefined")
      /\ (bucket.encryptionKey # "undefined") <=> kmsKey.exists

\* C2 witness: a finished pass with encryption on, the bucket referring to
\* the key that was built.
C2_Witness ==
    /\ Finished
    /\ kmsKey.exists
    /\ bucket.encryption = "KMS"
    /\ bucket.encryptionKey = "BucketEncryptionKey"

\* C3: after a pass, the role exists exactly when githubRepo was given (a
\* non-empty string), and the OIDCRoleArn output exists exactly when the role
\* does.
C3_RoleIffRepo ==
    Finished =>
      /\ oidcRole.exists <=> (props.githubRepo.set /\ props.githubRepo.val # <<>>)
      /\ ("OIDCRoleArn" \in OutputIds) <=> oidcRole.exists
      /\ oidcRole.exists =>
            \E i \in 1..Len(outputs) :
                /\ outputs[i].id = "OIDCRoleArn"
                /\ outputs[i].value = RoleArn(oidcRole)

\* C3 witness: a finished pass that built the role and registered its ARN.
C3_Witness ==
    /\ Finished
    /\ oidcRole.exists
    /\ "OIDCRoleArn" \in OutputIds

\* C4: after a pass, the outputs are exactly: the bucket-name entry, whose
\* value is the bucket name; the oidc-role-arn entry iff the role exists; the
\* kms-key-arn entry iff the key exists.  For projectId acme, environment dev
\* and nothing else, that is the single entry
\* acme-bucket-name-dev -> acme-secure-bucket-dev.
AcmeBucketNameDev == <<"a", "c", "m", "e", "-", "b", "u", "c", "k", "e", "t", "-", "n", "a", "m", "e", "-", "d", "e", "v">>
AcmeSecureBucketDev == <<"a", "c", "m", "e", "-", "s", "e", "c", "u", "r", "e", "-", "b", "u", "c", "k", "e", "t", "-", "d", "e", "v">>

ScenarioA ==
    /\ entry = "SecureBucket"
    /\ raw.projectId = ACME
    /\ raw.environment = Some(DEV)
    /\ ~raw.enableVersioning.set
    /\ ~raw.enableEncryption.set
    /\ ~raw.githubRepo.set
    /\ ~raw.additionalGithubRepos.set

C4_OutputsMirrorNodes ==
    Finished =>
      /\ NamedOutputs =
            {<<props.projectId \o BucketNameInfix \o NormalizedEnvironment,
               bucket.bucketName>>}
            \cup (IF oidcRole.exists
                  THEN {<<props.projectId \o OidcRoleArnInfix \o NormalizedEnvironment,
                          RoleArn(oidcRole)>>}
                  ELSE {})
            \cup (IF kmsKey.exists
                  THEN {<<props.projectId \o KmsKeyArnInfix \o NormalizedEnvironment,
                          KeyArn(kmsKey)>>}
                  ELSE {})
      /\ Len(outputs) = 1 + (IF oidcRole.exists THEN 1 ELSE 0)
                          + (IF kmsKey.exists THEN 1 ELSE 0)
      /\ ScenarioA => NamedOutputs = {<<AcmeBucketNameDev, AcmeSecureBucketDev>>}

\* C4 witness: two finished passes, scenario A with its single entry and a
\* pass with all three entries, are both reachable; this is scenario A.
C4_Witness ==
    /\ Finished
    /\ ScenarioA
    /\ Len(outputs) = 1

\* C5: after a pass, every identifier follows the naming convention with the
\* normalized environment.
C5_NamingConvention ==
    Finished =>
      /\ bucket.bucketName =
            props.projectId \o SecureBucketInfix \o NormalizedEnvironment
      /\ kmsKey.exists =>
            kmsKey.aliases =
              <<AliasPrefix \o props.projectId \o BucketKeyInfix \o NormalizedEnvironment>>
      /\ oidcRole.exists =>
            oidcRole.roleName =
              props.projectId \o OidcRoleInfix \o NormalizedEnvironment
      /\ \A i \in 1..Len(outputs) :
            /\ outputs[i].id = "BucketName" =>
                 outputs[i].exportName =
                   props.projectId \o BucketNameInfix \o NormalizedEnvironment
            /\ outputs[i].id = "OIDCRoleArn" =>
                 outputs[i].exportName =
                   props.projectId \o OidcRoleArnInfix \o NormalizedEnvironment
            /\ outputs[i].id = "KMSKeyArn" =>
                 outputs[i].exportName =
                   props.projectId \o KmsKeyArnInfix \o NormalizedEnvironment

\* C5 witness: a finished pass that built all three resources and registered
\* all three outputs, with the environment left to its default.
C5_Witness ==
    /\ Finished
    /\ kmsKey.exists
    /\ oidcRole.exists
    /\ Len(outputs) = 3
    /\ ~props.environment.set

\* C6: a pass run after another on a configuration with the same projectId
\* and environment derives the same bucket name and, where both have a key,
\* the same key alias, whatever the other fields are; when the whole
\* configuration is repeated, every identifier is repeated.
C6_NamingDeterministic ==
    (Finished /\ prev.exists) =>
      /\ prev.ids.store = bucket.bucketName
      /\ (prev.ids.keyAlias # <<>> /\ kmsKey.exists) =>
            prev.ids.keyAlias = kmsKey.aliases
      /\ prev.same => prev.ids = Identifiers

\* C6 witness: a finished second pass whose configuration differs from the
\* first one's (here: the first had no role, the second has one), both with a
\* key.
C6_Witness ==
    /\ Finished
    /\ prev.exists
    /\ ~prev.same
    /\ prev.ids.roleName = <<>>
    /\ oidcRole.exists
    /\ prev.ids.keyAlias # <<>>
    /\ kmsKey.exists

\* C7: the sub patterns of a built role are repo:{r}:* for r running through
\* githubRepo followed by additionalGithubRepos, in that order, one per entry,
\* duplicates included.
RepoOaPattern == <<"r", "e", "p", "o", ":", "o", "/", "a", ":", "*">>
RepoObPattern == <<"r", "e", "p", "o", ":", "o", "/", "b", ":", "*">>

ScenarioD ==
    /\ props.githubRepo = Some(RepoA)
    /\ props.additionalGithubRepos = Some(<<RepoB, RepoA>>)

C7_TrustPatternSequence ==
    (Finished /\ oidcRole.exists) =>
      LET extra == IF props.additionalGithubRepos.set
                   THEN props.additionalGithubRepos.val ELSE <<>>
          pats == oidcRole.assumedBy.StringLike
      IN  /\ Len(pats) = 1 + Len(extra)
          /\ pats[1] = <<"r", "e", "p", "o", ":">> \o props.githubRepo.val \o <<":", "*">>
          /\ \A i \in 1..Len(extra) :
                pats[i + 1] = <<"r", "e", "p", "o", ":">> \o extra[i] \o <<":", "*">>
          /\ ScenarioD => pats = <<RepoOaPattern, RepoObPattern, RepoOaPattern>>

\* C7 witness: scenario D, a finished pass whose additional repositories
\* repeat githubRepo.
C7_Witness ==
    /\ Finished
    /\ oidcRole.exists
    /\ ScenarioD
    /\ Len(oidcRole.assumedBy.StringLike) = 3

\* the repositories the configuration lists
ListedRepos ==
    {props.githubRepo.val} \cup
    {props.additionalGithubRepos.val[i] :
        i \in 1..Len(props.additionalGithubRepos.val)}

\* an entry written as a plain repository name: none of the characters that
\* StringLike or the sub claim give a meaning to
Literal(r) == \A i \in 1..Len(r) : r[i] \notin {"*", "?", ":"}

\* a token is accepted only with the audience sts.amazonaws.com and a sub
\* claim that matches one of repo:{r}:*
TrustIsConjunction ==
    \A tok \in Tokens :
        Assumable(oidcRole, tok) =>
          /\ tok.aud = <<"s", "t", "s", ".", "a", "m", "a", "z", "o", "n", "a", "w", "s", ".", "c", "o", "m">>
          /\ \E r \in ListedRepos :
                Like(<<"r", "e", "p", "o", ":">> \o r \o <<":", "*">>, SubClaim(tok))

\* every sub claim of a listed repository is accepted
ListedReposAccepted ==
    \A tok \in Tokens :
        (/\ tok.repo \in ListedRepos
         /\ tok.provider = ProviderArn
         /\ tok.aud = StsAudience) => Assumable(oidcRole, tok)

\* C8 as stated: in addition to the above, no token of a repository that
\* is not listed is accepted.
C8_Original ==
    (Finished /\ oidcRole.exists) =>
      /\ TrustIsConjunction
      /\ ListedReposAccepted
      /\ \A tok \in Tokens :
            Assumable(oidcRole, tok) => tok.repo \in ListedRepos

\* C8 as amended: a token is accepted only with the fixed audience and a sub
\* claim matching one of the patterns repo:{r}:*; every sub claim of a listed
\* repository is accepted; and when every listed entry is a plain repository
\* name (no *, ? or :), no token of a repository that is not listed is
\* accepted.
C8_TrustBoundary ==
    (Finished /\ oidcRole.exists) =>
      /\ TrustIsConjunction
      /\ ListedReposAccepted
      /\ (\A r \in ListedRepos : Literal(r)) =>
            \A tok \in Tokens :
                Assumable(oidcRole, tok) => tok.repo \in ListedRepos

\* C8 witness: a finished pass with the role built from plain repository
\* names, where one presented token is accepted and tokens of another
\* repository and of another audience are refused.
C8_Witness ==
    /\ Finished
    /\ oidcRole.exists
    /\ \A r \in ListedRepos : Literal(r)
    /\ \E tok \in Tokens : Assumable(oidcRole, tok)
    /\ \E tok \in Tokens :
          /\ tok.aud = StsAudience
          /\ tok.provider = ProviderArn
          /\ tok.repo = RepoAB
          /\ ~Assumable(oidcRole, tok)
    /\ \E tok \in Tokens :
          /\ tok.aud # StsAudience
          /\ tok.repo \in ListedRepos
          /\ ~Assumable(oidcRole, tok)

\* what the caller left out
Omitted(field) == ~raw[field].set

\* the defaults of SecureBucketProps, as seen in what was built
DocumentedDefaults ==
    /\ Omitted("environment") => environment = <<"d", "e", "v">>
    /\ Omitted("enableVersioning") => bucket.versioned = FALSE
    /\ Omitted("enableEncryption") =>
          (~kmsKey.exists /\ bucket.encryption = "S3_MANAGED")
    /\ (Omitted("additionalGithubRepos") /\ oidcRole.exists) =>
          Len(oidcRole.assumedBy.StringLike) = 1

\* C9 as stated: on both entry points every omitted field takes the default
\* documented for SecureBucketProps.
C9_Original == Finished => DocumentedDefaults

\* C9 as amended: the SecureBucket construct resolves every omitted field to
\* its documented default; the SecureBucketStack wrapper resolves an omitted
\* enableVersioning and an omitted enableEncryption to true, so that omitting
\* both there gives a versioned bucket with a key, and never passes
\* additionalGithubRepos on.
C9_Defaults ==
    Finished =>
      /\ entry = "SecureBucket" => DocumentedDefaults
      /\ entry = "SecureBucketStack" =>
            /\ Omitted("enableVersioning") => bucket.versioned = TRUE
            /\ Omitted("enableEncryption") =>
                  (kmsKey.exists /\ bucket.encryption = "KMS")
            /\ oidcRole.exists => Len(oidcRole.assumedBy.StringLike) = 1

\* C9 witness: a finished pass through the construct with every optional
\* field omitted.
C9_Witness ==
    /\ Finished
    /\ entry = "SecureBucket"
    /\ Omitted("environment")
    /\ Omitted("enableVersioning")
    /\ Omitted("enableEncryption")
    /\ Omitted("additionalGithubRepos")
    /\ ~bucket.versioned
    /\ ~kmsKey.exists

\* C10: the grants of a built role are, in order: read/write on the bucket
\* and its objects; encrypt/decrypt on the key, iff the key exists; the
\* AWSCloudFormationFullAccess attachment and the inline statement, both on
\* every resource and both in every configuration.
C10_GrantSequence ==
    (Finished /\ oidcRole.exists) =>
      LET g == oidcRole.grants
          n == Len(g)
      IN  /\ n = IF kmsKey.exists THEN 4 ELSE 3
          /\ g[1].kind = "grantReadWrite"
          /\ g[1].resources = {"SecureBucket", "SecureBucket/*"}
          /\ kmsKey.exists =>
                /\ g[2].kind = "grantEncryptDecrypt"
                /\ g[2].resources = {"BucketEncryptionKey"}
          /\ g[n - 1].kind = "managedPolicy"
          /\ g[n - 1].actions = {"AWSCloudFormationFullAccess"}
          /\ g[n - 1].resources = {"*"}
          /\ g[n].kind = "policyStatement"
          /\ g[n].resources = {"*"}
          /\ {"iam:CreateRole", "iam:PassRole", "s3:*", "kms:*"} \subseteq g[n].actions

\* C10 witness: a finished pass with role and key, the role holding all four
\* grants.
C10_Witness ==
    /\ Finished
    /\ oidcRole.exists
    /\ kmsKey.exists
    /\ Len(oidcRole.grants) = 4

\* the resource scopes a least-privilege grant may have: the bucket, its
\* objects, the key
ScopedResources ==
    {"SecureBucket", "SecureBucket/*"}
      \cup (IF kmsKey.exists THEN {"BucketEncryptionKey"} ELSE {})

\* C11: every grant attached to a built role is scoped to the bucket (and
\* its objects) or to the key; none has the wildcard resource scope.
C11_LeastPrivilege ==
    (Finished /\ oidcRole.exists) =>
      \A i \in 1..Len(oidcRole.grants) :
          /\ oidcRole.grants[i].resources \subseteq ScopedResources
          /\ "*" \notin oidcRole.grants[i].resources

\* C12: in every state of a pass, also the intermediate ones, a node exists
\* only if what it depends on was built before it: the bucket after the key
\* it refers to, the role and each of its grants after the bucket and (with
\* encryption on) the key, and every output after its node; the outputs come
\* last, after the role when one is to be built.
C12_DependenciesFirst ==
    /\ bucket.exists =>
          /\ TruthyBool(props.enableEncryption) => kmsKey.exists
          /\ bucket.encryptionKey # "undefined" =>
                (kmsKey.exists /\ kmsKey.id = bucket.encryptionKey)
    /\ role.exists =>
          /\ bucket.exists
          /\ TruthyBool(props.enableEncryption) => kmsKey.exists
          /\ \A i \in 1..Len(role.grants) :
                /\ role.grants[i].kind = "grantReadWrite" => bucket.exists
                /\ role.grants[i].kind = "grantEncryptDecrypt" => kmsKey.exists
    /\ oidcRole.exists => (role.exists /\ oidcRole = role)
    /\ outputs # <<>> =>
          /\ bucket.exists
          /\ (props.githubRepo.set /\ props.githubRepo.val # <<>>) =>
                (oidcRole.exists /\ Len(oidcRole.grants) >= 3)
    /\ \A i \in 1..Len(outputs) :
          /\ outputs[i].id = "BucketName" => bucket.exists
          /\ outputs[i].id = "OIDCRoleArn" => oidcRole.exists
          /\ outputs[i].id = "KMSKeyArn" => kmsKey.exists
    /\ (kmsKey.exists \/ bucket.exists \/ role.exists \/ outputs # <<>>) =>
          pc \notin {"stack", "begin"}

\* C12 witness: an intermediate state, the role built and about to be
\* granted the key, with bucket and key in place and no output registered.
C12_Witness ==
    /\ pc = "grant_kms"
    /\ role.exists
    /\ Len(role.grants) = 1
    /\ bucket.exists
    /\ kmsKey.exists
    /\ bucket.encryptionKey = "BucketEncryptionKey"
    /\ ~oidcRole.exists
    /\ outputs = <<>>

FailSteps ==
    {"key", "addAlias", "bucket", "role", "grant_rw", "grant_kms",
     "managed_policy", "add_to_policy", "out_bucket", "out_role", "out_key"}
Failed == pc \in {"failed:" \o st : st \in FailSteps}
FailedIn(steps) == pc \in {"failed:" \o st : st \in steps}

EncryptionWanted == TruthyBool(props.enableEncryption)
RoleWanted == props.githubRepo.set /\ props.githubRepo.val # <<>>

\* the complete result for the configuration
CompleteGraph ==
    /\ bucket.exists
    /\ kmsKey.exists <=> EncryptionWanted
    /\ oidcRole.exists <=> RoleWanted
    /\ Len(outputs) = 1 + (IF RoleWanted THEN 1 ELSE 0)
                        + (IF EncryptionWanted THEN 1 ELSE 0)

\* nothing at all
EmptyGraph ==
    /\ ~kmsKey.exists
    /\ ~bucket.exists
    /\ ~role.exists
    /\ ~oidcRole.exists
    /\ outputs = <<>>

\* C13 as stated: a pass ends with the complete graph and outputs, or, when
\* a step failed, with nothing.
C13_Original ==
    /\ Finished => CompleteGraph
    /\ Failed => EmptyGraph

\* what is left behind when the pass stops at a step: all that the steps
\* before it built, and nothing of the steps after it
LeftBehind ==
    /\ FailedIn({"key"}) => EmptyGraph
    /\ FailedIn({"addAlias"}) =>
          (kmsKey.exists /\ kmsKey.aliases = <<>> /\ ~bucket.exists)
    /\ FailedIn({"bucket"}) =>
          /\ kmsKey.exists <=> EncryptionWanted
          /\ ~bucket.exists
    /\ FailedIn({"addAlias", "bucket", "role"}) =>
          (~role.exists /\ outputs = <<>>)
    /\ FailedIn({"role", "grant_rw", "grant_kms", "managed_policy",
                 "add_to_policy"}) =>
          /\ bucket.exists
          /\ kmsKey.exists <=> EncryptionWanted
          /\ ~oidcRole.exists
          /\ outputs = <<>>
    /\ FailedIn({"grant_rw", "grant_kms", "managed_policy", "add_to_policy"}) =>
          (role.exists /\ Len(role.grants) < (IF kmsKey.exists THEN 4 ELSE 3))
    /\ FailedIn({"out_bucket", "out_role", "out_key"}) =>
          /\ bucket.exists
          /\ kmsKey.exists <=> EncryptionWanted
          /\ oidcRole.exists <=> RoleWanted
          /\ Len(outputs) < 1 + (IF RoleWanted THEN 1 ELSE 0)
                              + (IF EncryptionWanted THEN 1 ELSE 0)

\* C13 as amended: a pass that ends normally has built the complete graph
\* and outputs; a failing step ends the pass for good (no step follows it, so
\* no catch and no retry) and leaves it short of the complete result; but
\* nothing is rolled back: what the earlier steps built stays in the scope,
\* such as the key without its bucket.
C13_FailFastNoRollback ==
    /\ [](Finished => CompleteGraph)
    /\ [](Failed => (LeftBehind /\ ~CompleteGraph))
    /\ [][~Failed]_vars

\* C13 witness: the bucket failed after the key was built; the key stays.
C13_Witness ==
    /\ pc = "failed:bucket"
    /\ kmsKey.exists
    /\ ~bucket.exists
    /\ outputs = <<>>

\* what follows the first n characters
DropPrefix(str, n) == SubSeq(str, n + 1, Len(str))

\* the environment suffix of the bucket name
StoreSuffix ==
    DropPrefix(bucket.bucketName, Len(props.projectId) + Len(SecureBucketInfix))

\* C14: in a finished pass the environment suffix of the role name, which
\* resolves the default on its own, is the suffix of the bucket name, of the
\* key alias and of every export name, whether environment was given, left
\* out or empty.
C14_OneEnvironment ==
    Finished =>
      LET n == Len(props.projectId) IN
      /\ oidcRole.exists =>
            DropPrefix(oidcRole.roleName, n + Len(OidcRoleInfix)) = StoreSuffix
      /\ kmsKey.exists =>
            DropPrefix(kmsKey.aliases[1],
                       Len(AliasPrefix) + n + Len(BucketKeyInfix)) = StoreSuffix
      /\ \A i \in 1..Len(outputs) :
            DropPrefix(outputs[i].exportName,
                       n + (CASE outputs[i].id = "BucketName" -> Len(BucketNameInfix)
                              [] outputs[i].id = "OIDCRoleArn" -> Len(OidcRoleArnInfix)
                              [] outputs[i].id = "KMSKeyArn" -> Len(KmsKeyArnInfix)))
              = StoreSuffix

\* C14 witness: a finished pass with an empty environment that built the key
\* and the role, all names ending in dev.
C14_Witness ==
    /\ Finished
    /\ props.environment = Some(<<>>)
    /\ oidcRole.exists
    /\ kmsKey.exists
    /\ Len(outputs) = 3
    /\ StoreSuffix = <<"d", "e", "v">>

EmptyRepoPattern == <<"r", "e", "p", "o", ":", ":", "*">>
LastChar(str) == str[Len(str)]

\* every identifier the pass derived
DerivedNames ==
    {bucket.bucketName}
      \cup (IF kmsKey.exists THEN {kmsKey.aliases[1]} ELSE {})
      \cup (IF oidcRole.exists THEN {oidcRole.roleName} ELSE {})
      \cup {outputs[i].exportName : i \in 1..Len(outputs)}

\* C15: in a finished pass an empty environment has become dev and no
\* identifier ends in a hyphen; an empty githubRepo has built no role and no
\* role output, so the first pattern of a role is never repo::*; an empty
\* string among additionalGithubRepos is kept and gives the pattern repo::*.
C15_EmptyStrings ==
    Finished =>
      /\ (props.environment.set /\ props.environment.val = <<>>) =>
            environment = <<"d", "e", "v">>
      /\ \A name \in DerivedNames : LastChar(name) # "-"
      /\ (props.githubRepo.set /\ props.githubRepo.val = <<>>) =>
            (~oidcRole.exists /\ "OIDCRoleArn" \notin OutputIds)
      /\ oidcRole.exists =>
            LET extra == IF props.additionalGithubRepos.set
                         THEN props.additionalGithubRepos.val ELSE <<>>
                pats == oidcRole.assumedBy.StringLike
            IN  /\ pats[1] # EmptyRepoPattern
                /\ Len(pats) = 1 + Len(extra)
                /\ \A i \in 1..Len(extra) :
                      extra[i] = <<>> => pats[i + 1] = EmptyRepoPattern

\* C15 witness: a finished pass with an empty environment and a role whose
\* additional repositories are two empty strings, each with its pattern.
C15_Witness ==
    /\ Finished
    /\ props.environment = Some(<<>>)
    /\ oidcRole.exists
    /\ props.additionalGithubRepos = Some(<< <<>>, <<>> >>)
    /\ oidcRole.assumedBy.StringLike[2] = EmptyRepoPattern
    /\ oidcRole.assumedBy.StringLike[3] = EmptyRepoPattern
====
